---- MODULE Spec2Model ----
(***************************************************************************)
(* Model of src/app.py: the Domain Resolver (DomainUtil), the concurrent   *)
(* crawler (ConcurrentDomainCrawler) and the helpers they call.            *)
(*                                                                         *)
(* Text is modelled as a sequence of tokens: "acme.com:80" is              *)
(* <<"acme", ".", "com", ":", "80">>.  A URL is kept in the split form     *)
(* urlparse gives it: scheme, netloc, path, query, fragment.               *)
(***************************************************************************)
EXTENDS Integers, Sequences, FiniteSets, TLC

(***************************************************************************)
(* Bounds of the configurations explored.                                  *)
(***************************************************************************)
MaxDepthBound == 2
MaxPagesBound == 3
MaxWorkersBound == 2
MaxSegments == 2
MaxPathLen == 3
MaxQueryLen == 2
MaxRefs == 2
MaxDirectives == 2

(***************************************************************************)
(* Text helpers.                                                           *)
(***************************************************************************)
\* str.lower() on one token: the upper-case tokens of the universe.
LowerTok(t) ==
    CASE t = "ACME" -> "acme"
      [] t = "WWW" -> "www"
      [] t = "S3" -> "s3"
      [] t = "UTM_Source" -> "utm_source"
      [] t = "News" -> "news"
      [] t = "CP" -> "cp"
      [] OTHER -> t

Lower(s) == [i \in DOMAIN s |-> LowerTok(s[i])]

EndsWith(s, suf) ==
    /\ Len(s) >= Len(suf)
    /\ SubSeq(s, Len(s) - Len(suf) + 1, Len(s)) = suf

\* pat occurs in s as a contiguous run; pat is a sequence of token sets.
Search(pat, s) ==
    \E i \in 1..(Len(s) - Len(pat) + 1) :
        \A j \in 1..Len(pat) : s[i + j - 1] \in pat[j]

\* str.replace('www.', ''): every occurrence, left to right.
RECURSIVE ReplaceWww(_)
ReplaceWww(s) ==
    IF Len(s) = 0 THEN <<>>
    ELSE IF Len(s) >= 2 /\ s[1] = "www" /\ s[2] = "."
         THEN ReplaceWww(SubSeq(s, 3, Len(s)))
         ELSE <<s[1]>> \o ReplaceWww(Tail(s))

\* str.rstrip('/'): every trailing slash.
RECURSIVE RStripSlash(_)
RStripSlash(p) ==
    IF Len(p) > 0 /\ p[Len(p)] = "/"
    THEN RStripSlash(SubSeq(p, 1, Len(p) - 1))
    ELSE p

\* A URL in split form: scheme, netloc, the text between the netloc and the
\* '?' (the path with its ';parameters'), query, fragment.
Url(s, n, p, q, f) ==
    [scheme |-> s, netloc |-> n, path |-> p, query |-> q, fragment |-> f]

\* urllib's _splitparams on the text between netloc and '?': the parameters
\* start at the first ';' of the last segment.
SplitParams(p) ==
    LET slashes == {i \in DOMAIN p : p[i] = "/"}
        last_slash == IF slashes = {} THEN 0
                      ELSE CHOOSE i \in slashes : \A j \in slashes : j <= i
        semis == {i \in DOMAIN p : p[i] = ";" /\ i > last_slash}
    IN IF semis = {} THEN [path |-> p, params |-> <<>>]
       ELSE LET i == CHOOSE k \in semis : \A j \in semis : k <= j
            IN [path |-> SubSeq(p, 1, i - 1), params |-> SubSeq(p, i + 1, Len(p))]

\* urlparse(url).path and urlparse(url).params
ParsedPath(url) == SplitParams(url.path).path
ParsedParams(url) == SplitParams(url.path).params

\* urlunparse puts ';params' back only when the parameters are not empty.
UnsplitParams(path, params) ==
    IF Len(params) > 0 THEN path \o <<";">> \o params ELSE path

RECURSIVE QueryText(_)
QueryText(q) ==
    IF Len(q) = 0 THEN <<>>
    ELSE <<q[1].key, "=", q[1].val>>
         \o (IF Len(q) > 1 THEN <<"&">> ELSE <<>>) \o QueryText(Tail(q))

\* The text of a URL, token by token.
UrlText(u) ==
    <<u.scheme, "://">> \o u.netloc \o u.path
    \o (IF Len(u.query) > 0 THEN <<"?">> \o QueryText(u.query) ELSE <<>>)
    \o (IF u.fragment # "" THEN <<"#", u.fragment>> ELSE <<>>)

(***************************************************************************)
(* Blocked domains.                                                        *)
(***************************************************************************)
BLOCKED_DOMAINS ==
    { <<"s3", ".", "amazonaws", ".", "com">>,
      <<"amazonaws", ".", "com">>,
      <<"s3-us-west-2", ".", "amazonaws", ".", "com">>,
      <<"s3-us-east-1", ".", "amazonaws", ".", "com">>,
      <<"s3-eu-west-1", ".", "amazonaws", ".", "com">>,
      <<"storage", ".", "googleapis", ".", "com">>,
      <<"blob", ".", "core", ".", "windows", ".", "net">> }

is_blocked_domain(domain) ==
    IF Len(domain) = 0 THEN TRUE
    ELSE LET domain_lower == Lower(domain)
         IN \E blocked \in BLOCKED_DOMAINS :
                \/ domain_lower = blocked
                \/ EndsWith(domain_lower, <<".">> \o blocked)

(***************************************************************************)
(* DomainUtil.                                                             *)
(***************************************************************************)
NoRoot == [none |-> TRUE]

get_domain_root(url) ==
    IF url.scheme = "" \/ Len(url.netloc) = 0 THEN NoRoot
    ELSE Url(url.scheme, url.netloc, <<>>, <<>>, "")

get_normalized_domain(url) == ReplaceWww(Lower(url.netloc))

HasKey(domain_map, norm) == \E i \in 1..Len(domain_map) : domain_map[i][1] = norm

\* dict.get(key, default) on an insertion-ordered dict of <<key, value>> pairs.
DictGet(domain_map, norm, default) ==
    IF HasKey(domain_map, norm)
    THEN domain_map[CHOOSE i \in 1..Len(domain_map) : domain_map[i][1] = norm][2]
    ELSE default

\* The loop body of extract_unique_domain_roots for one URL.
AddDomainRoot(domain_map, url) ==
    LET root == get_domain_root(url)
        norm == get_normalized_domain(url)
    IN IF /\ url.scheme \in {"http", "https"}
          /\ root # NoRoot
          /\ Len(norm) > 0
          /\ ~HasKey(domain_map, norm)
          /\ ~is_blocked_domain(norm)
       THEN Append(domain_map, <<norm, root>>)
       ELSE domain_map

RECURSIVE FoldDomainRoots(_, _)
FoldDomainRoots(domain_map, urls) ==
    IF Len(urls) = 0 THEN domain_map
    ELSE FoldDomainRoots(AddDomainRoot(domain_map, urls[1]), Tail(urls))

\* all_http_urls is the list get_all_plain_http_urls returned.
extract_unique_domain_roots(all_http_urls) == FoldDomainRoots(<<>>, all_http_urls)

(***************************************************************************)
(* ConcurrentDomainCrawler: link validation and normalisation.             *)
(***************************************************************************)
EXCLUDED_EXTENSIONS ==
    { ".pdf", ".doc", ".docx", ".xls", ".xlsx", ".ppt", ".pptx",
      ".zip", ".rar", ".tar", ".gz", ".7z",
      ".jpg", ".jpeg", ".png", ".gif", ".bmp", ".svg", ".ico", ".webp",
      ".mp3", ".mp4", ".avi", ".mov", ".wmv", ".flv", ".wav",
      ".css", ".js", ".woff", ".woff2", ".ttf", ".eot", ".otf",
      ".exe", ".dmg", ".msi", ".apk" }

\* The tokens \d+ matches.
Digits == {"1", "2", "80", "2023"}

\* Each pattern is a sequence of token sets, searched in the text of the URL.
EXCLUDED_PATH_PATTERNS ==
    { <<{"/"}, {"wp-content"}, {"/"}>>, <<{"/"}, {"wp-includes"}, {"/"}>>,
      <<{"/"}, {"wp-admin"}, {"/"}>>,
      <<{"/"}, {"assets"}, {"/"}>>, <<{"/"}, {"static"}, {"/"}>>,
      <<{"/"}, {"images"}, {"/"}>>, <<{"/"}, {"img"}, {"/"}>>,
      <<{"/"}, {"fonts"}, {"/"}>>, <<{"/"}, {"css"}, {"/"}>>, <<{"/"}, {"js"}, {"/"}>>,
      <<{"javascript:"}>>, <<{"mailto:"}>>, <<{"tel:"}>>,
      <<{"/"}, {"cdn-cgi"}, {"/"}>>, <<{"/"}, {"feed"}, {"/"}>>, <<{"/"}, {"rss"}, {"/"}>>,
      <<{"/"}, {"login"}>>, <<{"/"}, {"logout"}>>, <<{"/"}, {"signup"}>>,
      <<{"/"}, {"register"}>>,
      <<{"/"}, {"cart"}>>, <<{"/"}, {"checkout"}>>, <<{"/"}, {"account"}>>,
      <<{"/"}, {"page"}, {"/"}, Digits>>, <<{"?"}, {"replytocom"}, {"="}>>,
      <<{"/"}, {"xmlrpc"}, {".php"}>>, <<{"/"}, {"wp-json"}, {"/"}>> }

\* allowed_domains is the set of keys of the domain map.
is_valid_url(url, allowed_domains) ==
    LET domain == ReplaceWww(Lower(url.netloc))
        path_lower == Lower(ParsedPath(url))
        url_lower == Lower(UrlText(url))
    IN /\ url.scheme \in {"http", "https"}
       /\ Len(url.netloc) > 0
       /\ domain \in allowed_domains
       /\ ~is_blocked_domain(domain)
       /\ ~\E ext \in EXCLUDED_EXTENSIONS : EndsWith(path_lower, <<ext>>)
       /\ ~\E pat \in EXCLUDED_PATH_PATTERNS : Search(pat, url_lower)

TRACKING_PARAMS ==
    { "utm_source", "utm_medium", "utm_campaign", "utm_term", "utm_content",
      "fbclid", "gclid" }

IsKept(p) == LowerTok(p.key) \notin TRACKING_PARAMS

\* path.rstrip('/') or '/'
NormalPath(stripped) == IF Len(stripped) = 0 THEN <<"/">> ELSE stripped

normalize_url(url) ==
    LET path == NormalPath(RStripSlash(ParsedPath(url)))
    IN Url(url.scheme, url.netloc, UnsplitParams(path, ParsedParams(url)),
           SelectSeq(url.query, IsKept), "")

(***************************************************************************)
(* URLMatcher.  A regex is the sequence of its tokens: a literal token     *)
(* matches that token of the text, ".*" any run of tokens, "(" ")" group   *)
(* and "|" separates alternatives.                                         *)
(***************************************************************************)
\* str.strip(): the blanks at both ends.
RECURSIVE LStrip(_)
LStrip(s) == IF Len(s) > 0 /\ s[1] = " " THEN LStrip(Tail(s)) ELSE s

RECURSIVE RStrip(_)
RStrip(s) ==
    IF Len(s) > 0 /\ s[Len(s)] = " " THEN RStrip(SubSeq(s, 1, Len(s) - 1)) ELSE s

Strip(s) == LStrip(RStrip(s))

\* str.replace('://www.', '://'): every occurrence, left to right.
RECURSIVE ReplaceSchemeWww(_)
ReplaceSchemeWww(s) ==
    IF Len(s) = 0 THEN <<>>
    ELSE IF Len(s) >= 3 /\ s[1] = "://" /\ s[2] = "www" /\ s[3] = "."
         THEN <<"://">> \o ReplaceSchemeWww(SubSeq(s, 4, Len(s)))
         ELSE <<s[1]>> \o ReplaceSchemeWww(Tail(s))

\* url is the text of a URL.
normalize_for_comparison(url) ==
    IF Len(url) = 0 THEN <<>>
    ELSE ReplaceSchemeWww(Lower(RStripSlash(Strip(url))))

\* The '(' of r[1..k] that are still open after r[k].
Balance(r, k) ==
    Cardinality({j \in 1..k : r[j] = "("}) - Cardinality({j \in 1..k : r[j] = ")"})

\* re.compile succeeds: every ')' closes a '(' and every '(' is closed.
Compiles(r) ==
    /\ \A k \in DOMAIN r : Balance(r, k) >= 0
    /\ Balance(r, Len(r)) = 0

\* The positions where a match of r that starts at position i of s can end.
RECURSIVE MatchEnds(_, _, _)
MatchEnds(r, s, i) ==
    LET bars == {k \in DOMAIN r : r[k] = "|" /\ Balance(r, k) = 0}
    IN IF bars # {}
       THEN LET k == CHOOSE b \in bars : \A c \in bars : b <= c
            IN MatchEnds(SubSeq(r, 1, k - 1), s, i)
                 \cup MatchEnds(SubSeq(r, k + 1, Len(r)), s, i)
       ELSE IF Len(r) = 0 THEN {i}
       ELSE IF r[1] = "("
       THEN LET closes == {j \in 2..Len(r) : Balance(r, j) = 0}
                k == CHOOSE b \in closes : \A c \in closes : b <= c
            IN UNION { MatchEnds(SubSeq(r, k + 1, Len(r)), s, j) :
                         j \in MatchEnds(SubSeq(r, 2, k - 1), s, i) }
       ELSE IF r[1] = ".*"
       THEN UNION { MatchEnds(Tail(r), s, j) : j \in i..(Len(s) + 1) }
       ELSE IF i <= Len(s) /\ s[i] = r[1]
       THEN MatchEnds(Tail(r), s, i + 1)
       ELSE {}

\* re.search(r, s) of a regex that compiles.
re_search(r, s) == \E i \in 1..(Len(s) + 1) : MatchEnds(r, s, i) # {}

DIRECTIVE_TAGS == {"ev", "cp", "df", "if"}

\* re.match(r'^(ev|cp|df|if):\s*\(?(.*?)\)?\s*$', pat_str, re.IGNORECASE)
\* matches.  On a one-line pat_str the second pattern, '^(ev|cp|df|if):(.*)',
\* matches exactly when this one does.
IsDirective(pat_str) ==
    /\ Len(pat_str) >= 2
    /\ LowerTok(pat_str[1]) \in DIRECTIVE_TAGS
    /\ pat_str[2] = ":"

\* m.group(2).strip(): '\s*' and '\(?' take the blanks and one '(' after
\* the colon, '\)?\s*$' one ')' and the blanks at the end; each paren is
\* taken whether or not the other is there.
regex_part_of(pat_str) ==
    LET after_tag == LStrip(SubSeq(pat_str, 3, Len(pat_str)))
        opened == IF Len(after_tag) > 0 /\ after_tag[1] = "("
                  THEN Tail(after_tag) ELSE after_tag
        before_end == RStrip(opened)
        group2 == IF Len(before_end) > 0 /\ before_end[Len(before_end)] = ")"
                  THEN SubSeq(before_end, 1, Len(before_end) - 1) ELSE before_end
    IN Strip(group2)

regex_part_inner_of(regex_part) ==
    IF regex_part[1] = "(" /\ regex_part[Len(regex_part)] = ")"
    THEN SubSeq(regex_part, 2, Len(regex_part) - 1)
    ELSE regex_part

\* One pass of 'for pat_str in regex_patterns': TRUE when it returns covered.
\* A re.error of any of the three searches ends the pass ('continue').
DirectiveCovers(pat_str, discovered_url) ==
    IF ~IsDirective(pat_str) THEN FALSE
    ELSE LET regex_part == regex_part_of(pat_str)
             regex_part_inner == regex_part_inner_of(regex_part)
             path == ParsedPath(discovered_url)
         IN IF Len(regex_part) = 0 THEN FALSE
            ELSE IF ~Compiles(regex_part) THEN FALSE
            ELSE IF re_search(regex_part, path) THEN TRUE
            ELSE IF regex_part_inner # regex_part /\ ~Compiles(regex_part_inner)
            THEN FALSE
            ELSE IF regex_part_inner # regex_part /\ re_search(regex_part_inner, path)
            THEN TRUE
            ELSE re_search(regex_part, UrlText(discovered_url))

\* The first loop: norm_discovered == norm_added for some reference URL.
ExactMatch(discovered_url, all_http) ==
    \E i \in DOMAIN all_http :
        normalize_for_comparison(UrlText(discovered_url))
            = normalize_for_comparison(UrlText(all_http[i]))

\* The test of the second loop for one reference URL.
PathMatches(discovered_url, http_url) ==
    LET disc_domain == ReplaceWww(Lower(discovered_url.netloc))
        added_domain == ReplaceWww(Lower(http_url.netloc))
        disc_path == RStripSlash(ParsedPath(discovered_url))
        added_path == RStripSlash(ParsedPath(http_url))
    IN /\ disc_domain = added_domain
       /\ Len(added_path) > 0
       /\ disc_path = added_path

Covered(reason) == [covered |-> TRUE, reason |-> reason]
NotCovered == [covered |-> FALSE, reason |-> ""]

\* The three loops in their order; each returns at its first hit, and the
\* reason names the loop.
is_url_covered(discovered_url, all_http, patterns) ==
    IF ExactMatch(discovered_url, all_http) THEN Covered("Exact match")
    ELSE IF \E i \in DOMAIN all_http : PathMatches(discovered_url, all_http[i])
    THEN Covered("Path match")
    ELSE IF \E i \in DOMAIN patterns : DirectiveCovers(patterns[i], discovered_url)
    THEN Covered("Regex")
    ELSE NotCovered

(***************************************************************************)
(* DocTypeClassifier.  Of each table the entries below are modelled, in    *)
(* the order of the source.  An entry is the text of the pattern and the   *)
(* token runs it matches: one set of tokens per position, each set holding *)
(* the tokens that contain that piece of the pattern.  Between two words   *)
(* the texts classified here have at most one separator.                   *)
(***************************************************************************)
\* [\s\-_]
SEPS == {" ", "-", "_"}

Pattern(pat, alts) == [pat |-> pat, alts |-> alts]

\* word1[\s\-_]?word2 and word1[\s\-_]*word2, the words as token sets.
Flex(pat, word1, word2) == Pattern(pat, { <<word1, SEPS, word2>>, <<word1, word2>> })

OOS_PATH_PATTERNS ==
    << Pattern("/career", { <<{"/"}, {"career", "careers"}>> }),
       Pattern("/login", { <<{"/"}, {"login"}>> }),
       Pattern("/privacy", { <<{"/"}, {"privacy"}>> }),
       Pattern("/privacy-notice", { <<{"/"}, {"privacy"}, {"-"}, {"notice"}>> }),
       Pattern("/search", { <<{"/"}, {"search"}>> }),
       Pattern("/sec-filing", { <<{"/"}, {"sec"}, {"-"}, {"filing", "filings"}>> }),
       Pattern("/subsidiary", { <<{"/"}, {"subsidiary"}>> }) >>

OOS_KEYWORDS ==
    << Flex("privacy[\\s\\-_]?notice", {"privacy"}, {"notice"}),
       Pattern("careers", { <<{"careers"}>> }),
       Pattern("career", { <<{"career", "careers"}>> }),
       Pattern("login", { <<{"login"}>> }),
       Pattern("search", { <<{"search", "research"}>> }),
       Flex("sec[\\s\\-_]?filing", {"sec"}, {"filing", "filings"}),
       Pattern("subsidiary", { <<{"subsidiary"}>> }),
       Pattern("subsidiaries", { <<{"subsidiaries"}>> }),
       Flex("analyst[\\s\\-_]?report", {"analyst"}, {"report", "reports"}) >>

PDF_ONLY_KEYWORDS ==
    << Flex("annual[\\s\\-_]*report", {"annual"}, {"report", "reports"}),
       Pattern("prox(?:y|ies)", { <<{"proxy", "proxies"}>> }),
       Pattern("merger", { <<{"merger"}>> }) >>

PDF_PATH_PATTERNS ==
    << Pattern("/presentation", { <<{"/"}, {"presentation"}>> }),
       Pattern("/annual-report", { <<{"/"}, {"annual"}, {"-"}, {"report", "reports"}>> }),
       Pattern("/filing", { <<{"/"}, {"filing", "filings"}>> }) >>

HTML_ONLY_KEYWORDS ==
    << Flex("about[\\s\\-_]*us", {"about"}, {"us"}),
       Pattern("/about/", { <<{"/"}, {"about"}, {"/"}>> }),
       Pattern("/products/", { <<{"/"}, {"products"}, {"/"}>> }) >>

HTML_PATH_PATTERNS ==
    << Pattern("/about", { <<{"/"}, {"about"}>> }),
       Pattern("/team", { <<{"/"}, {"team"}>> }),
       Pattern("/products", { <<{"/"}, {"products"}>> }) >>

BOTH_KEYWORDS ==
    << Flex("press[\\s\\-_]*release", {"press"}, {"release"}),
       Pattern("/news/", { <<{"/"}, {"news"}, {"/"}>> }),
       Pattern("newsroom", { <<{"newsroom"}>> }) >>

BOTH_PATH_PATTERNS ==
    << Pattern("/news", { <<{"/"}, {"news", "newsroom"}>> }),
       Pattern("/press", { <<{"/"}, {"press"}>> }),
       Pattern("/investor", { <<{"/"}, {"investor", "investors"}>> }),
       Pattern("/ir/", { <<{"/"}, {"ir"}, {"/"}>> }),
       Pattern("/reports", { <<{"/"}, {"reports"}>> }) >>

\* 'pat in text' and re.search(pat, text)
PatternIn(pattern, text) == \E alt \in pattern.alts : Search(alt, text)

\* The entries of the table that the loop over it would return at.
Hits(table, text) == {i \in DOMAIN table : PatternIn(table[i], text)}

\* The pattern the loop over the table returns at: the first that matches.
FirstHit(table, text) ==
    table[CHOOSE i \in Hits(table, text) : \A j \in Hits(table, text) : i <= j].pat

Classified(label, confidence, pat) ==
    [label |-> label, confidence |-> confidence, pat |-> pat]

\* Steps 2 to 5 of classify_url and its last line.
ClassifyByType(url) ==
    LET url_lower == Lower(UrlText(url))
        path_lower == Lower(ParsedPath(url))
    IN IF EndsWith(path_lower, <<".pdf">>)
       THEN Classified("PDF", "high", ".pdf extension")
       ELSE IF Hits(PDF_ONLY_KEYWORDS, url_lower) # {}
       THEN Classified("PDF", "medium", FirstHit(PDF_ONLY_KEYWORDS, url_lower))
       ELSE IF Hits(PDF_PATH_PATTERNS, path_lower) # {}
       THEN Classified("PDF", "medium", FirstHit(PDF_PATH_PATTERNS, path_lower))
       ELSE IF Hits(HTML_ONLY_KEYWORDS, url_lower) # {}
       THEN Classified("HTML", "medium", FirstHit(HTML_ONLY_KEYWORDS, url_lower))
       ELSE IF Hits(HTML_PATH_PATTERNS, path_lower) # {}
       THEN Classified("HTML", "medium", FirstHit(HTML_PATH_PATTERNS, path_lower))
       ELSE IF Hits(BOTH_KEYWORDS, url_lower) # {}
       THEN Classified("Both", "medium", FirstHit(BOTH_KEYWORDS, url_lower))
       ELSE IF Hits(BOTH_PATH_PATTERNS, path_lower) # {}
       THEN Classified("Both", "medium", FirstHit(BOTH_PATH_PATTERNS, path_lower))
       ELSE Classified("Unclassified", "low", "")

\* classify_url with the test of the extension moved before step 1.
classify_url_ExtensionFirst(url) ==
    LET url_lower == Lower(UrlText(url))
        path_lower == Lower(ParsedPath(url))
    IN IF EndsWith(path_lower, <<".pdf">>)
       THEN Classified("PDF", "high", ".pdf extension")
       ELSE IF Hits(OOS_PATH_PATTERNS, path_lower) # {}
       THEN Classified("Out of Scope", "high", FirstHit(OOS_PATH_PATTERNS, path_lower))
       ELSE IF Hits(OOS_KEYWORDS, url_lower) # {}
       THEN Classified("Out of Scope", "high", FirstHit(OOS_KEYWORDS, url_lower))
       ELSE ClassifyByType(url)

\* url is always a str here: step 1, then the steps by type.
classify_url(url) ==
    LET url_lower == Lower(UrlText(url))
        path_lower == Lower(ParsedPath(url))
    IN IF Hits(OOS_PATH_PATTERNS, path_lower) # {}
       THEN Classified("Out of Scope", "high", FirstHit(OOS_PATH_PATTERNS, path_lower))
       ELSE IF Hits(OOS_KEYWORDS, url_lower) # {}
       THEN Classified("Out of Scope", "high", FirstHit(OOS_KEYWORDS, url_lower))
       ELSE ClassifyByType(url)

\* is_in_scope with 'Unclassified' left out of the labels a mode keeps.
is_in_scope_Strict(url, check_mode) ==
    LET classification == classify_url(url).label
    IN IF classification = "Out of Scope" THEN FALSE
       ELSE IF check_mode = "Both" THEN TRUE
       ELSE IF check_mode = "PDF" THEN classification \in {"PDF", "Both"}
       ELSE IF check_mode = "HTML" THEN classification \in {"HTML", "Both"}
       ELSE TRUE

is_in_scope(url, check_mode) ==
    LET classification == classify_url(url).label
    IN IF classification = "Out of Scope" THEN FALSE
       ELSE IF check_mode = "Both" THEN TRUE
       ELSE IF check_mode = "PDF" THEN classification \in {"PDF", "Both", "Unclassified"}
       ELSE IF check_mode = "HTML" THEN classification \in {"HTML", "Both", "Unclassified"}
       ELSE TRUE

(***************************************************************************)
(* The web the crawler runs against: what a GET of each page returns.      *)
(***************************************************************************)
ACME == <<"acme", ".", "com">>
WWW_ACME == <<"www", ".", "acme", ".", "com">>
BETA == <<"beta", ".", "org">>
EVIL == <<"evil", ".", "net">>
S3 == <<"s3", ".", "amazonaws", ".", "com">>
S3_PORT == <<"s3", ".", "amazonaws", ".", "com", ":", "80">>

Page(s, n, p) == Url(s, n, p, <<>>, "")
Href(u) == [kind |-> "abs", url |-> u]

\* The anchors of each page, each href already joined to the page's URL
\* (urljoin), except the ones _fetch_links drops before joining.
Anchors(url) ==
    CASE url = Page("http", ACME, <<"/">>) ->
           << Href(Page("http", ACME, <<"/", "news", "/">>)),
              Href(Url("http", ACME, <<"/", "about">>, <<>>, "team")),
              Href(Page("http", S3_PORT, <<"/", "x">>)) >>
      [] url = Page("https", WWW_ACME, <<"/">>) ->
           << Href(Page("http", ACME, <<"/", "news">>)),
              [kind |-> "hash", url |-> Page("https", WWW_ACME, <<"/">>)],
              Href(Page("http", ACME, <<"/", "about", "/">>)),
              Href(Page("http", ACME, <<"/", "ir">>)) >>
      [] url = Page("http", ACME, <<"/", "news">>) ->
           << Href(Url("http", ACME, <<"/", "news", "/", "item1">>,
                       << [key |-> "utm_source", val |-> "x"] >>, "")),
              Href(Page("http", ACME, <<"/", "about">>)),
              Href(Page("http", ACME, <<"/", "report", ".pdf">>)) >>
      [] url = Page("http", ACME, <<"/", "about">>) ->
           << Href(Page("http", ACME, <<"/", "news", "/", "item1">>)),
              Href(Page("http", ACME, <<"/">>)),
              Href(Page("http", S3, <<"/", "bucket">>)) >>
      [] url = Page("http", ACME, <<"/", "ir">>) ->
           << Href(Page("http", ACME, <<"/", "login">>)),
              [kind |-> "js", url |-> Page("http", ACME, <<"/", "ir">>)],
              Href(Page("http", ACME, <<"/", "annual", "-", "report">>)),
              Href(Page("http", ACME, <<"/", "careers">>)) >>
      [] url = Page("http", ACME, <<"/", "news", "/", "item1">>) ->
           << Href(Page("http", ACME, <<"/", "news", "/", "item1", "/", "deep">>)) >>
      [] url = Page("http", ACME, <<"/", "news", "/", "item1", "/", "deep">>) ->
           << Href(Page("http", ACME, <<"/", "news", "/", "item1", "/", "deep", "/", "deeper">>)) >>
      [] url = Page("http", BETA, <<"/">>) ->
           << Href(Page("http", ACME, <<"/", "about">>)),
              Href(Page("http", BETA, <<"/", "b1">>)),
              Href(Page("http", EVIL, <<"/">>)) >>
      [] url = Page("http", S3_PORT, <<"/">>) ->
           << Href(Page("http", S3_PORT, <<"/", "x">>)) >>
      [] OTHER -> <<>>

IsJoined(h) == h.kind = "abs"

\* _fetch_links when the GET returns 200 text/html: the joined hrefs, without
\* the '#' and 'javascript:' ones.
fetch_links(url) ==
    LET kept == SelectSeq(Anchors(url), IsJoined)
    IN [i \in DOMAIN kept |-> kept[i].url]

(***************************************************************************)
(* The reference lists the runs start from: their plain URLs, in the order *)
(* of the list.                                                            *)
(***************************************************************************)
REF_ACME == Page("http", ACME, <<"/", "investors">>)
REF_WWW_ACME == Page("https", WWW_ACME, <<"/", "news">>)
REF_BETA == Page("http", BETA, <<"/", "x">>)
REF_S3 == Page("http", S3, <<"/", "bucket", "/", "file">>)
REF_S3_PORT == Page("http", S3_PORT, <<"/", "x">>)

ReferenceLists ==
    { <<REF_ACME>>, <<REF_ACME, REF_WWW_ACME>>, <<REF_ACME, REF_BETA>>,
      <<REF_BETA, REF_S3>>, <<REF_ACME, REF_S3_PORT>> }

\* The directive 'cp:(/news/.*)'.
DIR_NEWS == <<"cp", ":", "(", "/", "news", "/", ".*", ")">>

\* The reference entries of a run: its plain URLs and its regex directives.
ReferenceTexts ==
    { [plain |-> refs, directives |-> <<>>] : refs \in ReferenceLists }
        \cup { [plain |-> <<REF_ACME>>, directives |-> <<DIR_NEWS>>] }

\* set(all_http)
Elements(q) == { q[i] : i \in DOMAIN q }

\* list(set(all_http)): the URLs of the set, once each, in any order.
Orderings(S) ==
    { q \in [1..Cardinality(S) -> S] : \A i, j \in DOMAIN q : i # j => q[i] # q[j] }

(***************************************************************************)
(* State.                                                                  *)
(***************************************************************************)
VARIABLES
    combined,        \* main(): the reference list, its plain URLs and its directives
    max_depth,       \* self.max_depth
    max_pages,       \* self.max_pages
    max_workers,     \* self.max_workers
    domain_roots,    \* the domain map: a dict, as <<domain, root>> pairs in insertion order
    pc,              \* where crawl() is
    depth_level,     \* the loop variable of crawl()
    current_level,   \* list of <<url, depth>>
    next_level,      \* list of <<url, depth>>
    all_discovered,  \* dict url -> [seed, depth, domain]
    tasks,           \* the futures of the level: one _crawl_batch call each
    visited,         \* the shared visited set
    pages_crawled,   \* self._pages_crawled
    lock,            \* self._lock: 0 when free, else the task holding it
    fetch_count,     \* history: url -> number of GETs issued for it
    failed,          \* history: the URLs whose fetch failed
    insert_count,    \* history: url -> number of assignments all_discovered[url] = ...
    offer_count,     \* history: url -> number of times a task's result held it
    all_http_urls,   \* get_all_plain_http_urls(combined): a list
    regex_patterns,  \* extract_regex_patterns(combined): a list
    missing_rows,    \* main(): the rows of the missing URLs, a list
    crawl_summary,   \* st.session_state.crawl_summary
    call,            \* the last call of a function on its own: name, arguments, result
    missing_df_original,  \* st.session_state.missing_df_original
    missing_df,           \* st.session_state.missing_df: the rows displayed
    excluded_df,          \* st.session_state.excluded_df
    exclusions_applied    \* st.session_state.exclusions_applied, with the keywords applied

vars == << combined, max_depth, max_pages, max_workers, domain_roots, pc,
           depth_level, current_level, next_level, all_discovered, tasks, visited,
           pages_crawled, lock, fetch_count, failed, insert_count, offer_count,
           all_http_urls, regex_patterns, missing_rows, crawl_summary, call,
           missing_df_original, missing_df, excluded_df, exclusions_applied >>

config == << combined, max_depth, max_pages, max_workers, domain_roots,
             all_http_urls, regex_patterns >>

report == << missing_rows, crawl_summary, missing_df_original, missing_df,
            excluded_df, exclusions_applied >>

\* st.session_state.crawl_summary = None
NoSummary == [none |-> TRUE]

\* A DataFrame, as the list of its rows; None.
Frame(rows) == [rows |-> rows]
NoFrame == [none |-> TRUE]

\* st.session_state.exclusions_applied = None
NotApplied == [none |-> TRUE]

crawler == << pc, depth_level, current_level, next_level, all_discovered, tasks,
              visited, pages_crawled, lock, fetch_count, failed, insert_count,
              offer_count >>

NoCall == [fn |-> "none"]

EmptyMap == [u \in {} |-> 0]

\* bag[u] += 1
Bump(bag, u) ==
    IF u \in DOMAIN bag THEN [bag EXCEPT ![u] = @ + 1] ELSE bag @@ (u :> 1)

Count(bag, u) == IF u \in DOMAIN bag THEN bag[u] ELSE 0

Min(a, b) == IF a < b THEN a ELSE b
Max(a, b) == IF a > b THEN a ELSE b

Init ==
    /\ max_depth \in 1..MaxDepthBound
    /\ max_pages \in 1..MaxPagesBound
    /\ max_workers \in 1..MaxWorkersBound
    /\ combined \in ReferenceTexts
    /\ all_http_urls \in Orderings(Elements(combined.plain))
    /\ regex_patterns = combined.directives
    /\ domain_roots = extract_unique_domain_roots(all_http_urls)
    /\ missing_rows = <<>>
    /\ crawl_summary = NoSummary
    /\ missing_df_original = NoFrame
    /\ missing_df = NoFrame
    /\ excluded_df = NoFrame
    /\ exclusions_applied = NotApplied
    /\ call = NoCall
    /\ pc = "idle"
    /\ depth_level = 0
    /\ current_level = <<>>
    /\ next_level = <<>>
    /\ all_discovered = EmptyMap
    /\ tasks = <<>>
    /\ visited = {}
    /\ pages_crawled = 0
    /\ lock = 0
    /\ fetch_count = EmptyMap
    /\ failed = {}
    /\ insert_count = EmptyMap
    /\ offer_count = EmptyMap

(***************************************************************************)
(* crawl(): seeding.  main() always passes a progress_callback (cb), so    *)
(* 'if progress_callback:' holds at both calls.                            *)
(***************************************************************************)
Record(seed, depth, domain) == [seed |-> seed, depth |-> depth, domain |-> domain]

\* dict[key] = value
Put(dict, key, value) ==
    IF key \in DOMAIN dict THEN [dict EXCEPT ![key] = value] ELSE dict @@ (key :> value)

RECURSIVE SeedRecords(_, _)
SeedRecords(roots, discovered) ==
    IF Len(roots) = 0 THEN discovered
    ELSE SeedRecords(Tail(roots),
                     Put(discovered, normalize_url(roots[1][2]),
                         Record(roots[1][2], 0, roots[1][1])))

RECURSIVE SeedInserts(_, _)
SeedInserts(roots, bag) ==
    IF Len(roots) = 0 THEN bag
    ELSE SeedInserts(Tail(roots), Bump(bag, normalize_url(roots[1][2])))

SeedLevel(roots) == [i \in DOMAIN roots |-> <<normalize_url(roots[i][2]), 0>>]

CrawlStart ==
    /\ pc = "idle"
    /\ IF Len(domain_roots) = 0
       THEN /\ pc' = "done"
            /\ UNCHANGED << all_discovered, current_level, insert_count >>
       ELSE /\ all_discovered' = SeedRecords(domain_roots, EmptyMap)
            /\ insert_count' = SeedInserts(domain_roots, EmptyMap)
            /\ current_level' = SeedLevel(domain_roots)
            /\ pc' = "cb_start"
    /\ pages_crawled' = 0
    /\ visited' = {}
    /\ UNCHANGED << config, report, call, depth_level, next_level, tasks, lock, fetch_count, failed,
                    offer_count >>

(***************************************************************************)
(* crawl(): the level loop.                                                *)
(***************************************************************************)
NewTask(urls) ==
    [urls |-> urls, idx |-> 1, st |-> "queued", tmp |-> 0, links |-> <<>>,
     new_urls |-> <<>>, exc |-> FALSE]

\* batches = [current_level[i:i + batch_size] for i in range(0, len, batch_size)]
Batches(level, workers) ==
    LET batch_size == Max(1, Len(level) \div workers)
        n == (Len(level) + batch_size - 1) \div batch_size
    IN [b \in 1..n |->
            SubSeq(level, (b - 1) * batch_size + 1, Min(b * batch_size, Len(level)))]

\* The test at the top of the loop body, and the end of range(max_depth + 1).
LoopEnds ==
    \/ depth_level > max_depth
    \/ Len(current_level) = 0
    \/ pages_crawled >= max_pages

LevelStart ==
    /\ pc = "loop"
    /\ ~LoopEnds
    /\ LET batches == Batches(current_level, max_workers)
       IN tasks' = [b \in DOMAIN batches |-> NewTask(batches[b])]
    /\ next_level' = <<>>
    /\ pc' = "pool"
    /\ UNCHANGED << config, report, call, depth_level, current_level, all_discovered, visited,
                    pages_crawled, lock, fetch_count, failed, insert_count, offer_count >>

CrawlReturn ==
    /\ pc = "loop"
    /\ LoopEnds
    /\ pc' = "done"
    /\ UNCHANGED << config, report, call, depth_level, current_level, next_level, all_discovered,
                    tasks, visited, pages_crawled, lock, fetch_count, failed,
                    insert_count, offer_count >>

(***************************************************************************)
(* _crawl_batch(): one step of one task t of the pool.                     *)
(***************************************************************************)
Running(t) == tasks[t].st \notin {"queued", "done", "raised", "collected"}

\* ThreadPoolExecutor(max_workers=min(self.max_workers, max(len(batches), 1))):
\* queued work starts in submission order when a worker is free.
TaskStart(t) ==
    /\ pc = "pool"
    /\ tasks[t].st = "queued"
    /\ \A s \in 1..(t - 1) : tasks[s].st # "queued"
    /\ Cardinality({s \in DOMAIN tasks : Running(s)})
          < Min(max_workers, Max(Len(tasks), 1))
    /\ tasks' = [tasks EXCEPT ![t].st = "next"]
    /\ UNCHANGED << config, report, call, pc, depth_level, current_level, next_level,
                    all_discovered, visited, pages_crawled, lock, fetch_count,
                    failed, insert_count, offer_count >>

\* The url and depth the loop of _crawl_batch is at.
CurUrl(task) == task.urls[task.idx][1]
CurDepth(task) == task.urls[task.idx][2]

\* Back to the top of the loop: the next (url, depth) of the batch.
Advance(task) == [task EXCEPT !.idx = @ + 1, !.st = "next", !.links = <<>>]

\* 'with self._lock:' before the admission: a task enters when no task holds the lock.
AdmitLockFree_Unlocked == TRUE

AdmitLockFree == lock = 0

\* 'with self._lock:' before the test of a found link.
LinkLockFree == lock = 0

\* The top of the loop: the end of the batch, the depth test, the lock.
TaskNext(t) ==
    /\ tasks[t].st = "next"
    /\ IF tasks[t].idx > Len(tasks[t].urls)
       THEN /\ tasks' = [tasks EXCEPT ![t].st = "done"]
            /\ UNCHANGED lock
       ELSE IF CurDepth(tasks[t]) > max_depth
       THEN /\ tasks' = [tasks EXCEPT ![t] = Advance(@)]
            /\ UNCHANGED lock
       ELSE /\ AdmitLockFree
            /\ lock' = t
            /\ tasks' = [tasks EXCEPT ![t].st = "cs"]
    /\ UNCHANGED << config, report, call, pc, depth_level, current_level, next_level,
                    all_discovered, visited, pages_crawled, fetch_count, failed,
                    insert_count, offer_count >>

\* In the lock: 'if url in visited: continue', visited.add(url), and the read
\* of self._pages_crawled that '+= 1' starts with.
TaskAdmit(t) ==
    /\ tasks[t].st = "cs"
    /\ IF CurUrl(tasks[t]) \in visited
       THEN /\ tasks' = [tasks EXCEPT ![t] = Advance(@)]
            /\ lock' = 0
            /\ UNCHANGED visited
       ELSE /\ visited' = visited \cup {CurUrl(tasks[t])}
            /\ tasks' = [tasks EXCEPT ![t].st = "count", ![t].tmp = pages_crawled]
            /\ UNCHANGED lock
    /\ UNCHANGED << config, report, call, pc, depth_level, current_level, next_level,
                    all_discovered, pages_crawled, fetch_count, failed, insert_count, offer_count >>

\* 'if self._pages_crawled > self.max_pages'
BudgetExceeded_OffByOne(crawled) == crawled > max_pages + 1

BudgetExceeded(crawled) == crawled > max_pages

\* In the lock: the write of '+= 1', the budget test, the release.
TaskCount(t) ==
    /\ tasks[t].st = "count"
    /\ pages_crawled' = tasks[t].tmp + 1
    /\ lock' = 0
    /\ tasks' = [tasks EXCEPT
                   ![t].st = IF BudgetExceeded(pages_crawled') THEN "done" ELSE "fetch"]
    /\ UNCHANGED << config, report, call, pc, depth_level, current_level, next_level,
                    all_discovered, visited, fetch_count, failed, insert_count, offer_count >>

\* The task once _fetch_links returned links.
AfterFetch(task, links) ==
    IF Len(links) = 0 THEN Advance(task)
    ELSE [task EXCEPT !.st = "links", !.links = links]

\* _fetch_links: the GET returned 200 text/html and the page parsed.
TaskFetchOk(t) ==
    /\ tasks[t].st = "fetch"
    /\ fetch_count' = Bump(fetch_count, CurUrl(tasks[t]))
    /\ tasks' = [tasks EXCEPT ![t] = AfterFetch(@, fetch_links(CurUrl(@)))]
    /\ UNCHANGED << config, report, call, pc, depth_level, current_level, next_level,
                    all_discovered, visited, pages_crawled, lock, failed,
                    insert_count, offer_count >>

\* The task once _fetch_links gave up on the page: it returns no link.
AfterFailure_Retry(task) == task

AfterFailure(task) == AfterFetch(task, <<>>)

\* _fetch_links: timeout, connection error, status not 200, not text/html,
\* or parse error.
TaskFetchFails(t) ==
    /\ tasks[t].st = "fetch"
    /\ fetch_count' = Bump(fetch_count, CurUrl(tasks[t]))
    /\ failed' = failed \cup {CurUrl(tasks[t])}
    /\ tasks' = [tasks EXCEPT ![t] = AfterFailure(@)]
    /\ UNCHANGED << config, report, call, pc, depth_level, current_level, next_level,
                    all_discovered, visited, pages_crawled, lock, insert_count, offer_count >>

\* An exception leaves _crawl_batch while the task is at the links of a
\* page: the future holds the exception, the list new_urls is never returned.
TaskRaises(t) ==
    /\ tasks[t].st = "links"
    /\ tasks' = [tasks EXCEPT ![t].st = "raised"]
    /\ UNCHANGED << config, report, call, pc, depth_level, current_level, next_level,
                    all_discovered, visited, pages_crawled, lock, fetch_count,
                    failed, insert_count, offer_count >>

allowed_domains == {domain_roots[i][1] : i \in DOMAIN domain_roots}

\* new_urls.append((norm, depth + 1))
LinkDepth_PlusTwo(depth) == depth + 2

LinkDepth(depth) == depth + 1

\* The task once the first of its pending links is handled.
AfterLink(task, new_urls) ==
    IF Len(task.links) = 1 THEN [Advance(task) EXCEPT !.new_urls = new_urls]
    ELSE [task EXCEPT !.links = Tail(@), !.new_urls = new_urls]

\* One pass of 'for link in self._fetch_links(url, session)'.
TaskLink(t) ==
    /\ tasks[t].st = "links"
    /\ LET task == tasks[t]
           norm == normalize_url(Head(task.links))
       IN IF is_valid_url(norm, allowed_domains)
          THEN /\ LinkLockFree
               /\ tasks' = [tasks EXCEPT ![t] =
                     AfterLink(task,
                        IF norm \notin visited
                        THEN Append(task.new_urls, <<norm, LinkDepth(CurDepth(task))>>)
                        ELSE task.new_urls)]
          ELSE tasks' = [tasks EXCEPT ![t] = AfterLink(task, task.new_urls)]
    /\ UNCHANGED << config, report, call, pc, depth_level, current_level, next_level,
                    all_discovered, visited, pages_crawled, lock, fetch_count,
                    failed, insert_count, offer_count >>

(***************************************************************************)
(* crawl(): collecting the futures of the level.                           *)
(***************************************************************************)
\* The body of 'for new_url, new_depth in f.result(timeout=120)' without the
\* test 'if new_url not in all_discovered'.
Merge_NoTest(acc, item) ==
    LET new_url == item[1]
        domain == ReplaceWww(Lower(new_url.netloc))
        root == DictGet(domain_roots, domain, domain_roots[1][2])
    IN [disc |-> Put(acc.disc, new_url, Record(root, item[2], domain)),
        next |-> Append(acc.next, item),
        ins |-> Bump(acc.ins, new_url)]

\* The body of 'for new_url, new_depth in f.result(timeout=120)' with the
\* first seed as the seed of every record.
Merge_FirstSeed(acc, item) ==
    LET new_url == item[1]
        domain == ReplaceWww(Lower(new_url.netloc))
        root == domain_roots[1][2]
    IN IF new_url \notin DOMAIN acc.disc
       THEN [disc |-> Put(acc.disc, new_url, Record(root, item[2], domain)),
             next |-> Append(acc.next, item),
             ins |-> Bump(acc.ins, new_url)]
       ELSE acc

\* The body of 'for new_url, new_depth in f.result(timeout=120)'.
Merge(acc, item) ==
    LET new_url == item[1]
        domain == ReplaceWww(Lower(new_url.netloc))
        root == DictGet(domain_roots, domain, domain_roots[1][2])
    IN IF new_url \notin DOMAIN acc.disc
       THEN [disc |-> Put(acc.disc, new_url, Record(root, item[2], domain)),
             next |-> Append(acc.next, item),
             ins |-> Bump(acc.ins, new_url)]
       ELSE acc

RECURSIVE MergeAll(_, _)
MergeAll(acc, items) ==
    IF Len(items) = 0 THEN acc
    ELSE MergeAll(Merge(acc, items[1]), Tail(items))

RECURSIVE Offered(_, _)
Offered(bag, items) ==
    IF Len(items) = 0 THEN bag
    ELSE Offered(Bump(bag, items[1][1]), Tail(items))

\* What the loop over f.result(timeout=120) runs on, with the list the
\* raising task had built so far.
FutureResult_Partial(task) == task.new_urls

\* What the loop over f.result(timeout=120) runs on: the list the task
\* returned, or nothing when f.result raises and 'except Exception: continue'
\* goes to the next future.
FutureResult(task) == IF task.st = "raised" THEN <<>> ELSE task.new_urls

\* as_completed yields a finished future; its result is merged.
Collect(t) ==
    /\ pc = "pool"
    /\ tasks[t].st \in {"done", "raised"}
    /\ LET acc == MergeAll([disc |-> all_discovered, next |-> next_level,
                            ins |-> insert_count], FutureResult(tasks[t]))
       IN /\ all_discovered' = acc.disc
          /\ next_level' = acc.next
          /\ insert_count' = acc.ins
    /\ offer_count' = Offered(offer_count, FutureResult(tasks[t]))
    /\ tasks' = [tasks EXCEPT ![t].st = "collected", ![t].new_urls = <<>>,
                              ![t].exc = (tasks[t].st = "raised")]
    /\ UNCHANGED << config, report, call, pc, depth_level, current_level, visited, pages_crawled,
                    lock, fetch_count, failed >>

\* as_completed is exhausted and the executor has shut down.
LevelComplete_AnyOne == \E t \in DOMAIN tasks : tasks[t].st = "collected"

LevelComplete == \A t \in DOMAIN tasks : tasks[t].st = "collected"

\* The end of the loop body: progress_callback(...) is called.
LevelCollected ==
    /\ pc = "pool"
    /\ LevelComplete
    /\ pc' = "cb_level"
    /\ UNCHANGED << config, report, call, depth_level, current_level, next_level, all_discovered,
                    tasks, visited, pages_crawled, lock, fetch_count, failed,
                    insert_count, offer_count >>

\* progress_callback(...) returns: after the first call the loop starts, after
\* the call of a level 'current_level = next_level' and the next pass.
ProgressReturns ==
    /\ pc \in {"cb_start", "cb_level"}
    /\ pc' = "loop"
    /\ IF pc = "cb_level"
       THEN /\ current_level' = next_level
            /\ depth_level' = depth_level + 1
       ELSE UNCHANGED << current_level, depth_level >>
    /\ UNCHANGED << config, report, call, next_level, all_discovered, tasks, visited,
                    pages_crawled, lock, fetch_count, failed, insert_count, offer_count >>

\* progress_callback(...) raises: nothing in crawl() catches it.
ProgressRaises ==
    /\ pc \in {"cb_start", "cb_level"}
    /\ pc' = "raised"
    /\ UNCHANGED << config, report, call, depth_level, current_level, next_level, all_discovered,
                    tasks, visited, pages_crawled, lock, fetch_count, failed,
                    insert_count, offer_count >>

(***************************************************************************)
(* KeywordExcluder.  The text of the keyword box is the list of its parts  *)
(* between '|', each part a list of tokens.                                *)
(***************************************************************************)
IsWord(tok) == tok \notin SEPS

\* re.split(r'[\s\-_]+', part)
Words(part) == SelectSeq(part, IsWord)

\* The tokens, of the URLs filtered here, that contain the word.
Containing(word) ==
    IF LowerTok(word) = "deep" THEN {"deep", "deeper"} ELSE {LowerTok(word)}

\* r'[\s\-_]?'.join(re.escape(w) for w in words), and the one word as it is.
RECURSIVE FlexAlts(_)
FlexAlts(words) ==
    IF Len(words) = 1 THEN { << Containing(words[1]) >> }
    ELSE { << Containing(words[1]) >> \o sep \o rest :
             sep \in { <<>>, <<SEPS>> }, rest \in FlexAlts(Tail(words)) }

\* part = part.strip(); 'if not part: continue' is not taken.
IsKeyword(part) == Len(Strip(part)) > 0

\* The pair (part, compiled).
ParsedKeyword(part) == Pattern(Strip(part), FlexAlts(Words(Strip(part))))

parse_keywords(keyword_string) ==
    LET kept == SelectSeq(keyword_string, IsKeyword)
    IN [i \in DOMAIN kept |-> ParsedKeyword(kept[i])]

\* The first keyword that is found in the lower-cased URL.
should_exclude(url, parsed_keywords) ==
    LET url_lower == Lower(UrlText(url))
    IN IF Hits(parsed_keywords, url_lower) = {}
       THEN [excluded |-> FALSE, reason |-> <<>>]
       ELSE [excluded |-> TRUE, reason |-> FirstHit(parsed_keywords, url_lower)]

\* excluded.rename(columns={"_exclude_reason": "excluded_by_keyword"})
ExcludedRow(row, parsed_keywords) ==
    [row |-> row,
     excluded_by_keyword |-> should_exclude(row.missing_url, parsed_keywords).reason]

filter_dataframe(df, parsed_keywords) ==
    IF Len(parsed_keywords) = 0 \/ Len(df.rows) = 0
    THEN [filtered |-> df, excluded |-> Frame(<<>>)]
    ELSE LET Excluded(row) == should_exclude(row.missing_url, parsed_keywords).excluded
             Kept(row) == ~Excluded(row)
             out == SelectSeq(df.rows, Excluded)
         IN [filtered |-> Frame(SelectSeq(df.rows, Kept)),
             excluded |-> Frame([i \in DOMAIN out |-> ExcludedRow(out[i], parsed_keywords)])]

build_missing_df(rows) == Frame(rows)

(***************************************************************************)
(* main(): after crawl() returned, the pass over the discovered URLs.      *)
(***************************************************************************)
MODES == {"PDF", "HTML", "Both"}

\* The URLs a run can discover, in the order of their texts (str order).
URL_ORDER ==
    << Page("http", ACME, <<"/">>),
       Page("http", ACME, <<"/", "about">>),
       Page("http", ACME, <<"/", "annual", "-", "report">>),
       Page("http", ACME, <<"/", "careers">>),
       Page("http", ACME, <<"/", "ir">>),
       Page("http", ACME, <<"/", "news">>),
       Page("http", ACME, <<"/", "news", "/", "item1">>),
       Page("http", ACME, <<"/", "news", "/", "item1", "/", "deep">>),
       Page("http", ACME, <<"/", "news", "/", "item1", "/", "deep", "/", "deeper">>),
       Page("http", BETA, <<"/">>),
       Page("http", BETA, <<"/", "b1">>),
       Page("http", S3_PORT, <<"/">>),
       Page("http", S3_PORT, <<"/", "x">>),
       Page("https", WWW_ACME, <<"/">>) >>

InDiscovered(url) == url \in DOMAIN all_discovered

\* [url for url, info in sorted(discovered.items())]
SortedDiscovered == SelectSeq(URL_ORDER, InDiscovered)

source_module_of(doc_class) ==
    IF doc_class = "Both" \/ doc_class = "Unclassified" THEN "PDF + HTML"
    ELSE IF doc_class = "PDF" THEN "PDF"
    ELSE IF doc_class = "HTML" THEN "HTML"
    ELSE "Unclassified"

MissingRow(url, info, result) ==
    [domain |-> info.domain, seed_url |-> info.seed, missing_url |-> url,
     depth |-> info.depth, doc_classification |-> result.label,
     confidence |-> result.confidence, matched_pattern |-> result.pat,
     source_module |-> source_module_of(result.label)]

\* The scope test of the loop without the mode: only 'Out of Scope' is dropped.
ScopeKeeps_AnyMode(url, selected_mode) == classify_url(url).label # "Out of Scope"

\* 'if not DocTypeClassifier.is_in_scope(url, selected_mode)' is not taken.
ScopeKeeps(url, selected_mode) == is_in_scope(url, selected_mode)

\* One pass of the loop without the 'continue' after 'covered_count += 1'.
ReportUrl_NoContinue(acc, url, selected_mode) ==
    LET counted == IF is_url_covered(url, all_http_urls, regex_patterns).covered
                   THEN [acc EXCEPT !.covered_count = @ + 1] ELSE acc
    IN IF ~ScopeKeeps(url, selected_mode)
       THEN IF classify_url(url).label = "Out of Scope"
            THEN [counted EXCEPT !.oos_count = @ + 1]
            ELSE [counted EXCEPT !.filtered_out_count = @ + 1]
       ELSE [counted EXCEPT !.missing_rows =
                 Append(@, MissingRow(url, all_discovered[url], classify_url(url)))]

\* One pass of 'for url, info in sorted(discovered.items())'.
ReportUrl(acc, url, selected_mode) ==
    IF is_url_covered(url, all_http_urls, regex_patterns).covered
    THEN [acc EXCEPT !.covered_count = @ + 1]
    ELSE IF ~ScopeKeeps(url, selected_mode)
    THEN IF classify_url(url).label = "Out of Scope"
         THEN [acc EXCEPT !.oos_count = @ + 1]
         ELSE [acc EXCEPT !.filtered_out_count = @ + 1]
    ELSE [acc EXCEPT !.missing_rows =
              Append(@, MissingRow(url, all_discovered[url], classify_url(url)))]

RECURSIVE ReportAll(_, _, _)
ReportAll(acc, urls, selected_mode) ==
    IF Len(urls) = 0 THEN acc
    ELSE ReportAll(ReportUrl(acc, urls[1], selected_mode), Tail(urls), selected_mode)

\* crawl() returned its records: the rest of the run of main().  The mode is
\* the one selected in the sidebar; crawl() does not read it.
Report ==
    /\ pc = "done"
    /\ crawl_summary = NoSummary
    /\ \E selected_mode \in MODES :
          LET acc == ReportAll([missing_rows |-> <<>>, covered_count |-> 0,
                                oos_count |-> 0, filtered_out_count |-> 0],
                               SortedDiscovered, selected_mode)
          IN /\ missing_rows' = acc.missing_rows
             /\ missing_df_original' = build_missing_df(acc.missing_rows)
             /\ missing_df' = build_missing_df(acc.missing_rows)
             /\ excluded_df' = NoFrame
             /\ exclusions_applied' = NotApplied
             /\ crawl_summary' =
                   [total_discovered |-> Cardinality(DOMAIN all_discovered),
                    covered_count |-> acc.covered_count,
                    missing_count |-> Len(acc.missing_rows),
                    oos_count |-> acc.oos_count,
                    filtered_out_count |-> acc.filtered_out_count,
                    domains_crawled |-> Len(domain_roots),
                    check_mode |-> selected_mode]
    /\ UNCHANGED << config, call, pc, depth_level, current_level, next_level,
                    all_discovered, tasks, visited, pages_crawled, lock, fetch_count,
                    failed, insert_count, offer_count >>

(***************************************************************************)
(* main(): the keyword box under the results of a run.                     *)
(***************************************************************************)
\* ' ', ' about|annual report| |deep'
KeywordInputs ==
    { << <<" ">> >>,
      << <<" ", "about">>, <<"annual", " ", "report">>, <<" ">>, <<"deep">> >> }

\* The box and its buttons are shown under the results of a run that has
\* missing URLs.
ExclusionBoxShown ==
    /\ crawl_summary # NoSummary
    /\ missing_df_original # NoFrame
    /\ Len(missing_df_original.rows) > 0

\* The frame handed to filter_dataframe, were it the one displayed.
ApplySource_Displayed == missing_df

\* The frame handed to filter_dataframe: df_original.
ApplySource == missing_df_original

\* 'Apply Exclusions' is pressed with exclude_keywords in the box.
ApplyExclusions ==
    /\ ExclusionBoxShown
    /\ \E exclude_keywords \in KeywordInputs :
          LET parsed_kw == parse_keywords(exclude_keywords)
              result == filter_dataframe(ApplySource, parsed_kw)
          IN IF Len(parsed_kw) > 0
             THEN /\ missing_df' = result.filtered
                  /\ excluded_df' = result.excluded
                  /\ exclusions_applied' = [keywords |-> parsed_kw]
             ELSE UNCHANGED << missing_df, excluded_df, exclusions_applied >>
    /\ UNCHANGED << config, call, crawler, missing_rows, crawl_summary,
                    missing_df_original >>

\* 'Reset (Show All)' is pressed.
ResetExclusions ==
    /\ ExclusionBoxShown
    /\ missing_df' = missing_df_original
    /\ excluded_df' = NoFrame
    /\ exclusions_applied' = NotApplied
    /\ UNCHANGED << config, call, crawler, missing_rows, crawl_summary,
                    missing_df_original >>

Next ==
    \/ CrawlStart
    \/ LevelStart
    \/ CrawlReturn
    \/ \E t \in DOMAIN tasks : TaskStart(t)
    \/ \E t \in DOMAIN tasks : TaskNext(t)
    \/ \E t \in DOMAIN tasks : TaskAdmit(t)
    \/ \E t \in DOMAIN tasks : TaskCount(t)
    \/ \E t \in DOMAIN tasks : TaskFetchOk(t)
    \/ \E t \in DOMAIN tasks : TaskFetchFails(t)
    \/ \E t \in DOMAIN tasks : TaskLink(t)
    \/ \E t \in DOMAIN tasks : TaskRaises(t)
    \/ \E t \in DOMAIN tasks : Collect(t)
    \/ LevelCollected
    \/ ProgressReturns
    \/ ProgressRaises
    \/ Report
    \/ ApplyExclusions
    \/ ResetExclusions

Spec == Init /\ [][Next]_vars

(***************************************************************************)
(* The functions called on their own, on arguments drawn from the sets     *)
(* below: is_url_covered, classify_url, is_in_scope, _normalize_url.       *)
(***************************************************************************)
\* The sequences of at most n elements of S.
RECURSIVE SeqsUpTo(_, _)
SeqsUpTo(S, n) ==
    IF n = 0 THEN { <<>> }
    ELSE SeqsUpTo(S, n - 1)
           \cup { Append(q, x) : q \in SeqsUpTo(S, n - 1), x \in S }

NoRepeat(q) == \A i, j \in DOMAIN q : i # j => q[i] # q[j]

UPPER_ACME == <<"ACME", ".", "com">>
CAREERS_ACME == <<"careers", ".", "acme", ".", "com">>

MatcherUrls ==
    { Page("http", ACME, <<"/", "news", "/", "item1">>),
      Page("http", ACME, <<"/", "news", "/", "a">>),
      Page("https", WWW_ACME, <<"/", "News", "/", "item1", "/">>),
      Page("http", ACME, <<"/">>) }

MatcherReferences ==
    { Page("http", UPPER_ACME, <<"/", "news", "/", "item1", "/">>),
      Url("https", WWW_ACME, <<"/", "news", "/", "item1">>,
          << [key |-> "x", val |-> "1"] >>, ""),
      Page("http", ACME, <<>>),
      Page("http", BETA, <<"/", "news", "/", "item1">>) }

\* 'cp:(/news/.*)', 'CP: /news/(a|b)', 'ev:acme.com/news', 'xx:/news',
\* 'if:()', 'df:((/press)|(acme))', 'cp:(/news', 'cp:/news/(a'
MatcherDirectives ==
    { DIR_NEWS,
      <<"cp", ":", "(", "/", "news">>,
      <<"cp", ":", "/", "news", "/", "(", "a">>,
      <<"CP", ":", " ", "/", "news", "/", "(", "a", "|", "b", ")">>,
      <<"ev", ":", "acme", ".", "com", "/", "news">>,
      <<"xx", ":", "/", "news">>,
      <<"if", ":", "(", ")">>,
      <<"df", ":", "(", "(", "/", "press", ")", "|", "(", "acme", ")", ")">> }

SEGMENTS ==
    { <<"careers">>, <<"annual", "-", "report">>, <<"about">>, <<"news">>,
      <<"x">>, <<"research">>, <<"investor", "-", "relations">>,
      <<"privacy", "-", "notice">>, <<"sec", "-", "filings">>, <<"ir">> }

\* The paths of 1 to n segments.
RECURSIVE PathsUpTo(_)
PathsUpTo(n) ==
    IF n = 0 THEN {}
    ELSE { <<"/">> \o seg : seg \in SEGMENTS }
           \cup { p \o <<"/">> \o seg : p \in PathsUpTo(n - 1), seg \in SEGMENTS }

ClassifierUrls ==
    { Page("http", host, p \o ext) :
        host \in {ACME, S3, CAREERS_ACME},
        p \in PathsUpTo(MaxSegments),
        ext \in { <<>>, <<".pdf">> } }

NormalizerPaths ==
    { p \in SeqsUpTo({"/", "a", ";"}, MaxPathLen) : Len(p) > 0 => p[1] = "/" }

NormalizerQueries ==
    SeqsUpTo({ [key |-> "x", val |-> "1"], [key |-> "utm_source", val |-> "2"],
               [key |-> "UTM_Source", val |-> "3"], [key |-> "utm_id", val |-> "4"],
               [key |-> "y", val |-> "5"] }, MaxQueryLen)

NormalizerUrls ==
    { Url("http", ACME, p, q, f) :
        p \in NormalizerPaths, q \in NormalizerQueries, f \in {"", "top"} }

\* No crawl runs: the crawler as constructed, on the reference list of one URL.
UnitInit ==
    /\ max_depth = 1
    /\ max_pages = 1
    /\ max_workers = 1
    /\ combined = [plain |-> <<REF_ACME>>, directives |-> <<>>]
    /\ all_http_urls = <<REF_ACME>>
    /\ regex_patterns = <<>>
    /\ domain_roots = extract_unique_domain_roots(all_http_urls)
    /\ missing_rows = <<>>
    /\ crawl_summary = NoSummary
    /\ missing_df_original = NoFrame
    /\ missing_df = NoFrame
    /\ excluded_df = NoFrame
    /\ exclusions_applied = NotApplied
    /\ call = NoCall
    /\ pc = "idle"
    /\ depth_level = 0
    /\ current_level = <<>>
    /\ next_level = <<>>
    /\ all_discovered = EmptyMap
    /\ tasks = <<>>
    /\ visited = {}
    /\ pages_crawled = 0
    /\ lock = 0
    /\ fetch_count = EmptyMap
    /\ failed = {}
    /\ insert_count = EmptyMap
    /\ offer_count = EmptyMap

CallIsUrlCovered ==
    /\ call = NoCall
    /\ \E url \in MatcherUrls :
       \E all_http \in { q \in SeqsUpTo(MatcherReferences, MaxRefs) : NoRepeat(q) } :
       \E patterns \in { q \in SeqsUpTo(MatcherDirectives, MaxDirectives) : NoRepeat(q) } :
          call' = [fn |-> "is_url_covered", url |-> url, all_http |-> all_http,
                   patterns |-> patterns,
                   result |-> is_url_covered(url, all_http, patterns)]
    /\ UNCHANGED << config, report, crawler >>

CallClassifyUrl ==
    /\ call = NoCall
    /\ \E url \in ClassifierUrls :
          call' = [fn |-> "classify_url", url |-> url, result |-> classify_url(url)]
    /\ UNCHANGED << config, report, crawler >>

CallIsInScope ==
    /\ call = NoCall
    /\ \E url \in ClassifierUrls : \E check_mode \in MODES :
          call' = [fn |-> "is_in_scope", url |-> url, check_mode |-> check_mode,
                   result |-> is_in_scope(url, check_mode)]
    /\ UNCHANGED << config, report, crawler >>

CallNormalizeUrl ==
    /\ call = NoCall
    /\ \E url \in NormalizerUrls :
          call' = [fn |-> "normalize_url", url |-> url, result |-> normalize_url(url)]
    /\ UNCHANGED << config, report, crawler >>

\* The caller goes on.
CallReturns ==
    /\ call # NoCall
    /\ call' = NoCall
    /\ UNCHANGED << config, report, crawler >>

UnitNext ==
    \/ CallIsUrlCovered
    \/ CallClassifyUrl
    \/ CallIsInScope
    \/ CallNormalizeUrl
    \/ CallReturns

UnitSpec == UnitInit /\ [][UnitNext]_vars

(***************************************************************************)
(* Quantities the properties speak of.                                     *)
(***************************************************************************)
RECURSIVE BagSize(_)
BagSize(bag) ==
    IF DOMAIN bag = {} THEN 0
    ELSE LET u == CHOOSE x \in DOMAIN bag : TRUE
         IN bag[u] + BagSize([x \in DOMAIN bag \ {u} |-> bag[x]])

\* The number of GETs issued so far in the run.
TotalFetches == BagSize(fetch_count)

InLock(t) == tasks[t].st \in {"cs", "count"}

\* The host of a netloc: what precedes the ':' of the port.
RECURSIVE Hostname(_)
Hostname(netloc) ==
    IF Len(netloc) = 0 \/ netloc[1] = ":" THEN <<>>
    ELSE <<netloc[1]>> \o Hostname(Tail(netloc))

\* The host of the URL is a blocked domain or a subdomain of one.
HostBlocked(url) ==
    LET host == Lower(Hostname(url.netloc))
    IN \E blocked \in BLOCKED_DOMAINS :
           host = blocked \/ EndsWith(host, <<".">> \o blocked)

(***************************************************************************)
(* Properties.                                                             *)
(***************************************************************************)
\* C1: every URL is assigned into all_discovered at most once, and once a
\* URL has a record the record stays and keeps its seed, domain and depth,
\* however often and from however many tasks the URL is found again.
C1_InsertedOnceNeverOverwritten ==
    /\ [](\A u \in DOMAIN insert_count : insert_count[u] <= 1)
    /\ [][\A u \in DOMAIN all_discovered :
              /\ u \in DOMAIN all_discovered'
              /\ all_discovered'[u] = all_discovered[u]]_vars

\* C1 witness: a URL that the results of the tasks held more than once has
\* exactly one record.
C1_Witness ==
    \E u \in DOMAIN all_discovered :
        /\ Count(offer_count, u) >= 2
        /\ Count(insert_count, u) = 1
        /\ pc = "done"

\* C2 as claimed: when the run is done, the records number at most max_pages.
C2_RecordsWithinMaxPages ==
    pc = "done" => Cardinality(DOMAIN all_discovered) <= max_pages

\* C2 amended: when the run is done, the pages fetched number at most
\* max_pages (the records may number more).
C2_FetchedWithinMaxPagesWhenDone ==
    pc = "done" => TotalFetches <= max_pages

\* C2 witness: a finished run that used its whole page budget and holds more
\* records than max_pages.
C2_Witness ==
    /\ pc = "done"
    /\ TotalFetches = max_pages
    /\ Cardinality(DOMAIN all_discovered) > max_pages

\* C3 as claimed: no record has a depth above max_depth.
C3_DepthWithinMaxDepth ==
    \A u \in DOMAIN all_discovered : all_discovered[u].depth <= max_depth

\* C3 amended: no record has a depth above max_depth + 1, and no page of a
\* depth above max_depth is fetched.
C3_DepthWithinMaxDepthPlusOne ==
    /\ \A u \in DOMAIN all_discovered : all_discovered[u].depth <= max_depth + 1
    /\ \A u \in DOMAIN fetch_count : all_discovered[u].depth <= max_depth

\* C3 witness: a page fetched at depth max_depth gave a record of depth
\* max_depth + 1.
C3_Witness ==
    /\ \E u \in DOMAIN fetch_count : all_discovered[u].depth = max_depth
    /\ \E u \in DOMAIN all_discovered : all_discovered[u].depth = max_depth + 1

\* C4 as claimed: the visited set and the page counter never exceed max_pages.
C4_AdmittedWithinMaxPages ==
    /\ Cardinality(visited) <= max_pages
    /\ pages_crawled <= max_pages

\* C4 amended: at every point the pages fetched number at most max_pages; the
\* counter equals the size of the visited set whenever no task is inside the
\* admission, and both exceed max_pages by at most one per task of the level.
C4_FetchesWithinMaxPages ==
    /\ TotalFetches <= max_pages
    /\ (\A t \in DOMAIN tasks : ~InLock(t)) => pages_crawled = Cardinality(visited)
    /\ pages_crawled <= max_pages + Len(tasks)
    /\ Cardinality(visited) <= max_pages + Len(tasks)

\* C4 witness: two tasks of one level each admitted a URL beyond the budget.
C4_Witness ==
    /\ pages_crawled >= max_pages + 2
    /\ Cardinality(visited) = pages_crawled
    /\ TotalFetches = max_pages

\* C5: no URL is fetched twice, and the admission (test of visited, insertion,
\* count) is one critical section: at most one task is inside it, holding the lock.
C5_NoUrlFetchedTwice ==
    /\ \A u \in DOMAIN fetch_count : fetch_count[u] <= 1 /\ u \in visited
    /\ \A s, t \in DOMAIN tasks : InLock(s) /\ InLock(t) => s = t
    /\ \A t \in DOMAIN tasks : InLock(t) => lock = t

\* C5 witness: one task is inside the admission while another task of the
\* level waits for the lock with a URL to admit, after a page was fetched.
C5_Witness ==
    \E s, t \in DOMAIN tasks :
        /\ s # t
        /\ InLock(s)
        /\ tasks[t].st = "next"
        /\ tasks[t].idx <= Len(tasks[t].urls)
        /\ DOMAIN fetch_count # {}

\* C6: while the tasks of level d run, every URL they hold has depth d and
\* every URL admitted or fetched so far has depth at most d; crawl() is past
\* the pool of a level only when every task of the level has completed and
\* been collected.
C6_LevelSynchronous ==
    /\ pc # "pool" => \A t \in DOMAIN tasks : tasks[t].st = "collected"
    /\ pc = "pool" =>
          \A t \in DOMAIN tasks : \A i \in DOMAIN tasks[t].urls :
              tasks[t].urls[i][2] = depth_level
    /\ \A u \in visited : all_discovered[u].depth <= depth_level
    /\ \A u \in DOMAIN fetch_count : all_discovered[u].depth <= depth_level

\* C6 witness: in level 1, one task has completed and found a URL of depth 2
\* while another task of the level is still running.
C6_Witness ==
    /\ pc = "pool"
    /\ depth_level = 1
    /\ \E s, t \in DOMAIN tasks :
          /\ tasks[s].st = "done"
          /\ Len(tasks[s].new_urls) > 0
          /\ Running(t)

\* C7: every run reaches Done: until crawl() has returned the records, the
\* run has a step to take (and every step uses up a URL, a link, a task or a
\* level, so the steps run out).
C7_ReachesDone == pc = "done" \/ ENABLED Next

\* C8: no record is for a URL whose host is a blocked domain or a subdomain
\* of one.
C8_NoBlockedRecord ==
    \A u \in DOMAIN all_discovered : ~HostBlocked(u)

\* C9: a page whose fetch failed is in the visited set and was fetched once;
\* the step in which a fetch fails adds no link to any task's result, moves
\* the task to the next URL of its batch, and leaves crawl() where it is.
C9_FailedFetch ==
    /\ [](\A u \in failed : u \in visited /\ Count(fetch_count, u) = 1)
    /\ [][failed' # failed =>
              /\ pc' = pc
              /\ \A t \in DOMAIN tasks :
                    /\ tasks'[t].new_urls = tasks[t].new_urls
                    /\ tasks'[t] # tasks[t] => tasks'[t] = Advance(tasks[t])]_vars

\* C9 witness: a batch whose page failed went on and fetched the next URL of
\* the batch, and its result was collected.
C9_Witness ==
    \E t \in DOMAIN tasks : \E i \in 1..(Len(tasks[t].urls) - 1) :
        /\ tasks[t].urls[i][1] \in failed
        /\ tasks[t].urls[i + 1][1] \in DOMAIN fetch_count \ failed
        /\ tasks[t].st = "collected"

\* C10: an exception of the progress callback never ends crawl().
C10_CallbackFailureDoesNotAbort == pc # "raised"

\* The links of page p that pass normalisation and validation in this run.
ValidLinks(p) ==
    { l \in { normalize_url(fetch_links(p)[i]) : i \in DOMAIN fetch_links(p) } :
        is_valid_url(l, allowed_domains) }

\* The URLs crawl() seeds the run with.
SeedUrls == { normalize_url(domain_roots[i][2]) : i \in DOMAIN domain_roots }

\* The pages whose fetch returned links.
FetchedOk == DOMAIN fetch_count \ failed

\* C11: a record has depth 0 exactly when it is a seed; a record of depth
\* d > 0 is a link of a fetched page of depth d - 1 and of no fetched page of
\* a smaller depth; a record enters with depth 1 + the level being crawled,
\* and its depth never changes afterwards, also when the URL is found again.
C11_DepthIsFirstLevelPlusOne ==
    /\ [](\A u \in DOMAIN all_discovered :
            LET d == all_discovered[u].depth
            IN /\ d = 0 <=> u \in SeedUrls
               /\ d > 0 => /\ \E p \in FetchedOk :
                                /\ all_discovered[p].depth = d - 1
                                /\ u \in ValidLinks(p)
                           /\ \A p \in FetchedOk :
                                all_discovered[p].depth < d - 1 => u \notin ValidLinks(p))
    /\ [][\A u \in DOMAIN all_discovered' :
              IF u \in DOMAIN all_discovered
              THEN all_discovered'[u].depth = all_discovered[u].depth
              ELSE all_discovered'[u].depth =
                       IF pc = "idle" THEN 0 ELSE depth_level + 1]_vars

\* Every discovered URL has its place in the pass of main().
AllSorted == Len(SortedDiscovered) = Cardinality(DOMAIN all_discovered)

\* C11 witness: a finished run in which a record of depth 1 is also a link of
\* a fetched page of depth 1 (found again one level deeper) and kept depth 1.
C11_Witness ==
    /\ pc = "done"
    /\ \E u \in DOMAIN all_discovered : \E p \in FetchedOk :
          /\ all_discovered[u].depth = 1
          /\ all_discovered[p].depth = 1
          /\ u \in ValidLinks(p)
          /\ Count(offer_count, u) >= 2

\* The run of main() has produced its report.
Reported == crawl_summary # NoSummary

\* The URLs of the rows reported missing.
MissingUrls == { missing_rows[i].missing_url : i \in DOMAIN missing_rows }

\* The discovered URLs the Matcher reports not covered.
Uncovered ==
    { u \in DOMAIN all_discovered :
        ~is_url_covered(u, all_http_urls, regex_patterns).covered }

\* The scope filter keeps a label in a mode.
LabelKept(label, mode) ==
    /\ label # "Out of Scope"
    /\ \/ mode = "Both"
       \/ label \in {"Both", "Unclassified"}
       \/ label = mode

\* C17: in the report of a run, the missing rows are exactly the discovered
\* URLs that are not covered and whose label the scope filter keeps in the
\* selected mode, one row each with the label and the data of the record; the
\* out-of-scope counter counts the uncovered URLs labelled Out of Scope and
\* the filtered-by-mode counter the uncovered URLs of another label that the
\* mode does not keep.
C17_MissingIffUncoveredAndInScope ==
    Reported =>
        LET mode == crawl_summary.check_mode
        IN /\ MissingUrls =
                 { u \in Uncovered : LabelKept(classify_url(u).label, mode) }
           /\ Len(missing_rows) = Cardinality(MissingUrls)
           /\ \A i \in DOMAIN missing_rows :
                 LET row == missing_rows[i]
                 IN /\ row.doc_classification = classify_url(row.missing_url).label
                    /\ row.depth = all_discovered[row.missing_url].depth
                    /\ row.seed_url = all_discovered[row.missing_url].seed
           /\ crawl_summary.oos_count =
                 Cardinality({ u \in Uncovered :
                                 classify_url(u).label = "Out of Scope" })
           /\ crawl_summary.filtered_out_count =
                 Cardinality({ u \in Uncovered :
                                 /\ classify_url(u).label # "Out of Scope"
                                 /\ ~LabelKept(classify_url(u).label, mode) })

\* C17 witness: a report in mode PDF with a covered URL, a missing URL, an
\* uncovered URL labelled Out of Scope and an uncovered URL labelled HTML
\* that the mode filtered out.
C17_Witness ==
    /\ Reported
    /\ crawl_summary.check_mode = "PDF"
    /\ crawl_summary.covered_count >= 1
    /\ crawl_summary.oos_count >= 1
    /\ crawl_summary.missing_count >= 1
    /\ \E u \in Uncovered \ MissingUrls : classify_url(u).label = "HTML"

\* The links of the pages fetched in the run, normalised.
LinksOfFetched ==
    UNION { { normalize_url(fetch_links(p)[i]) : i \in DOMAIN fetch_links(p) } :
              p \in FetchedOk }

\* C18: in the report of a run in mode PDF or Both, every link of a fetched
\* page that is on an allowed domain, whose path ends in .pdf and that the
\* Matcher does not report covered, has a record and a missing row with
\* label PDF and confidence high.
C18_PdfLinkReportedMissing ==
    (Reported /\ crawl_summary.check_mode \in {"PDF", "Both"}) =>
        \A l \in LinksOfFetched :
            ( /\ ReplaceWww(Lower(l.netloc)) \in allowed_domains
              /\ EndsWith(Lower(ParsedPath(l)), <<".pdf">>)
              /\ ~is_url_covered(l, all_http_urls, regex_patterns).covered )
            => /\ l \in DOMAIN all_discovered
               /\ \E i \in DOMAIN missing_rows :
                     /\ missing_rows[i].missing_url = l
                     /\ missing_rows[i].doc_classification = "PDF"
                     /\ missing_rows[i].confidence = "high"

\* The normalized domains of the plain reference URLs whose host is not blocked.
UnblockedDomains ==
    { ReplaceWww(Lower(all_http_urls[i].netloc)) :
        i \in { j \in DOMAIN all_http_urls : ~HostBlocked(all_http_urls[j]) } }

\* C20: the domain map has one entry for every normalized domain of the plain
\* reference URLs whose host is not blocked and no other entry; the seed of
\* an entry is scheme and host of a reference URL of that domain, without
\* path, query or fragment; no entry is for a blocked host.
C20_OneSeedPerUnblockedDomain ==
    /\ { domain_roots[i][1] : i \in DOMAIN domain_roots } = UnblockedDomains
    /\ \A i, j \in DOMAIN domain_roots :
          domain_roots[i][1] = domain_roots[j][1] => i = j
    /\ \A i \in DOMAIN domain_roots :
          LET root == domain_roots[i][2]
          IN /\ root.path = <<>> /\ root.query = <<>> /\ root.fragment = ""
             /\ ~HostBlocked(root)
             /\ \E k \in DOMAIN all_http_urls :
                   /\ all_http_urls[k].scheme = root.scheme
                   /\ all_http_urls[k].netloc = root.netloc

\* The pattern of a directive as written: the text after 'tag:'.
WrittenPattern(pat_str) == Strip(SubSeq(pat_str, 3, Len(pat_str)))

\* A well-formed directive (a tag, then a pattern that is a regex and is not
\* empty, also not inside its parentheses) whose pattern matches the path or
\* the whole URL.
WellFormedDirectiveMatches(pat_str, url) ==
    /\ IsDirective(pat_str)
    /\ Len(WrittenPattern(pat_str)) > 0
    /\ WrittenPattern(pat_str) # <<"(", ")">>
    /\ Compiles(WrittenPattern(pat_str))
    /\ \/ re_search(WrittenPattern(pat_str), ParsedPath(url))
       \/ re_search(WrittenPattern(pat_str), UrlText(url))

\* C12: is_url_covered returns 'Exact match' when the URL equals a reference
\* URL after normalize_for_comparison; otherwise 'Path match' when a reference
\* URL has the same normalized host and the same non-empty path; otherwise
\* 'Regex' when a well-formed directive matches the path or the whole URL;
\* otherwise not covered.
C12_CoveredExactlyByExactPathRegex ==
    call.fn = "is_url_covered" =>
        LET exact == \E i \in DOMAIN call.all_http :
                        normalize_for_comparison(UrlText(call.url))
                            = normalize_for_comparison(UrlText(call.all_http[i]))
            path == \E i \in DOMAIN call.all_http :
                        /\ ReplaceWww(Lower(call.url.netloc))
                              = ReplaceWww(Lower(call.all_http[i].netloc))
                        /\ RStripSlash(ParsedPath(call.all_http[i])) # <<>>
                        /\ RStripSlash(ParsedPath(call.url))
                              = RStripSlash(ParsedPath(call.all_http[i]))
            regex == \E i \in DOMAIN call.patterns :
                        WellFormedDirectiveMatches(call.patterns[i], call.url)
        IN call.result =
              IF exact THEN Covered("Exact match")
              ELSE IF path THEN Covered("Path match")
              ELSE IF regex THEN Covered("Regex")
              ELSE NotCovered

\* The categories of rules a URL matches.
MatchesOos(url) ==
    \/ Hits(OOS_PATH_PATTERNS, Lower(ParsedPath(url))) # {}
    \/ Hits(OOS_KEYWORDS, Lower(UrlText(url))) # {}

MatchesPdfExtension(url) == EndsWith(Lower(ParsedPath(url)), <<".pdf">>)

MatchesPdfOnly(url) ==
    \/ Hits(PDF_ONLY_KEYWORDS, Lower(UrlText(url))) # {}
    \/ Hits(PDF_PATH_PATTERNS, Lower(ParsedPath(url))) # {}

MatchesHtmlOnly(url) ==
    \/ Hits(HTML_ONLY_KEYWORDS, Lower(UrlText(url))) # {}
    \/ Hits(HTML_PATH_PATTERNS, Lower(ParsedPath(url))) # {}

MatchesBoth(url) ==
    \/ Hits(BOTH_KEYWORDS, Lower(UrlText(url))) # {}
    \/ Hits(BOTH_PATH_PATTERNS, Lower(ParsedPath(url))) # {}

\* C13: the label and confidence classify_url returns are those of the first
\* category, in the order out-of-scope, .pdf extension, PDF-only, HTML-only,
\* Both, that has a rule matching the URL, whatever later categories match,
\* and Unclassified/low when none has.
C13_FirstMatchingCategoryWins ==
    call.fn = "classify_url" =>
        LET url == call.url
            outcome == <<call.result.label, call.result.confidence>>
        IN /\ MatchesOos(url) => outcome = <<"Out of Scope", "high">>
           /\ (~MatchesOos(url) /\ MatchesPdfExtension(url))
                 => outcome = <<"PDF", "high">>
           /\ (~MatchesOos(url) /\ ~MatchesPdfExtension(url) /\ MatchesPdfOnly(url))
                 => outcome = <<"PDF", "medium">>
           /\ (~MatchesOos(url) /\ ~MatchesPdfExtension(url) /\ ~MatchesPdfOnly(url)
                 /\ MatchesHtmlOnly(url))
                 => outcome = <<"HTML", "medium">>
           /\ (~MatchesOos(url) /\ ~MatchesPdfExtension(url) /\ ~MatchesPdfOnly(url)
                 /\ ~MatchesHtmlOnly(url) /\ MatchesBoth(url))
                 => outcome = <<"Both", "medium">>
           /\ (~MatchesOos(url) /\ ~MatchesPdfExtension(url) /\ ~MatchesPdfOnly(url)
                 /\ ~MatchesHtmlOnly(url) /\ ~MatchesBoth(url))
                 => outcome = <<"Unclassified", "low">>

\* C13 witness: a URL that matches an out-of-scope rule, the .pdf extension,
\* a PDF-only rule and a Both rule was classified Out of Scope.
C13_Witness ==
    /\ call.fn = "classify_url"
    /\ MatchesOos(call.url)
    /\ MatchesPdfExtension(call.url)
    /\ MatchesPdfOnly(call.url)
    /\ MatchesBoth(call.url)
    /\ call.result.label = "Out of Scope"

\* The in-scope override terms, as token runs of the URL text.
OVERRIDE_TERMS ==
    { <<{"sec"}, SEPS, {"filing", "filings"}>>,
      <<{"email"}, SEPS, {"alert", "alerts"}>>,
      <<{"subsidiary", "subsidiaries"}>>,
      <<{"credit"}, SEPS, {"rating", "ratings"}>>,
      <<{"analyst"}, SEPS, {"report", "reports"}>>,
      <<{"/"}, {"ir"}, {"/"}>>,
      <<{"/"}, {"investors"}, {"/"}>> }

\* The URL matches an in-scope override pattern.
MatchesOverride(url) ==
    LET url_lower == Lower(UrlText(url))
    IN \/ \E term \in OVERRIDE_TERMS : Search(term, url_lower)
       \/ /\ Search(<<{"privacy"}, SEPS, {"notice"}>>, url_lower)
          /\ Search(<<{"investor"}, SEPS, {"relations"}>>, url_lower)

\* C14: a URL that matches an in-scope override pattern is not classified
\* Out of Scope: its result is the one of the extension and keyword rules.
C14_OverrideSkipsOutOfScopeRules ==
    (call.fn = "classify_url" /\ MatchesOverride(call.url)) =>
        /\ call.result.label # "Out of Scope"
        /\ call.result = ClassifyByType(call.url)

\* C15: a URL whose host is a blocked domain or a subdomain of one is
\* classified Out of Scope with confidence high, whatever else it matches.
C15_BlockedHostOutOfScope ==
    (call.fn = "classify_url" /\ HostBlocked(call.url)) =>
        /\ call.result.label = "Out of Scope"
        /\ call.result.confidence = "high"

\* C16: is_in_scope never keeps Out of Scope, keeps Both and Unclassified in
\* every mode, keeps PDF in the modes PDF and Both only and HTML in the modes
\* HTML and Both only.
C16_ScopeTable ==
    call.fn = "is_in_scope" =>
        LET label == classify_url(call.url).label
            mode == call.check_mode
        IN call.result =
              CASE label = "Out of Scope" -> FALSE
                [] label = "Both" -> TRUE
                [] label = "Unclassified" -> TRUE
                [] label = "PDF" -> mode \in {"PDF", "Both"}
                [] label = "HTML" -> mode \in {"HTML", "Both"}

\* C16 witness: is_in_scope kept an Unclassified URL in mode PDF.
C16_Witness ==
    /\ call.fn = "is_in_scope"
    /\ classify_url(call.url).label = "Unclassified"
    /\ call.check_mode = "PDF"
    /\ call.result = TRUE

\* C19: the result of normalize_url is a fixed point of normalize_url: it has
\* no fragment, no tracking parameter, and no trailing slash unless its path
\* is '/'.
C19_NormalizeIdempotent ==
    call.fn = "normalize_url" =>
        /\ normalize_url(call.result) = call.result
        /\ call.result.fragment = ""
        /\ \A i \in DOMAIN call.result.query : IsKept(call.result.query[i])
        /\ \/ call.result.path = <<"/">>
           \/ call.result.path[Len(call.result.path)] # "/"

\* C21: the plain-URL list of the reference extractor holds no URL whose host
\* is a blocked domain or a subdomain of one.
C21_PlainUrlsHoldNoBlockedHost ==
    \A i \in DOMAIN all_http_urls : ~HostBlocked(all_http_urls[i])

\* The records of the run that are not its seeds.
NonSeedRecords == DOMAIN all_discovered \ SeedUrls

\* C22: the URL of every record that is not a seed has scheme http or https,
\* a normalized host that is an allowed domain of the run, a host that is not
\* blocked, a path that ends with no excluded extension, and a text that no
\* path-exclusion pattern matches.
C22_RecordsPassedValidation ==
    \A u \in NonSeedRecords :
        /\ u.scheme \in {"http", "https"}
        /\ ReplaceWww(Lower(u.netloc)) \in allowed_domains
        /\ ~HostBlocked(u)
        /\ ~\E ext \in EXCLUDED_EXTENSIONS : EndsWith(Lower(ParsedPath(u)), <<ext>>)
        /\ ~\E pat \in EXCLUDED_PATH_PATTERNS : Search(pat, Lower(UrlText(u)))

\* The places of the reference list whose URL is on the domain.
PlacesOnDomain(domain) ==
    { k \in DOMAIN combined.plain : get_normalized_domain(combined.plain[k]) = domain }

\* The first URL of the reference list on the domain.
FirstOnDomain(domain) ==
    combined.plain[CHOOSE k \in PlacesOnDomain(domain) :
                       \A j \in PlacesOnDomain(domain) : k <= j]

\* C23: the seed the domain map holds for a domain is the root of the first
\* URL on that domain in the order of the reference list, so the map is a
\* function of the list.
C23_SeedIsRootOfFirstReference ==
    \A i \in DOMAIN domain_roots :
        /\ PlacesOnDomain(domain_roots[i][1]) # {}
        /\ domain_roots[i][2] = get_domain_root(FirstOnDomain(domain_roots[i][1]))

\* The parameter names that start with 'utm_', and fbclid and gclid.
TRACKING_NAMES == TRACKING_PARAMS \cup {"utm_id"}

IsTracking(p) == LowerTok(p.key) \in TRACKING_NAMES

NotTracking(p) == ~IsTracking(p)

\* C24: the query of a normalized URL is the query of the URL without the
\* parameters whose name starts with utm_ or is fbclid or gclid, the others
\* as they were and in their order.
C24_TrackingParametersDropped ==
    call.fn = "normalize_url" =>
        call.result.query = SelectSeq(call.url.query, NotTracking)

\* C25: in every record, domain is the normalized host of the URL and a key
\* of the domain map, and seed is the seed the map holds for that domain.
C25_RecordHoldsSeedOfItsDomain ==
    \A u \in DOMAIN all_discovered :
        /\ all_discovered[u].domain = get_normalized_domain(u)
        /\ HasKey(domain_roots, all_discovered[u].domain)
        /\ all_discovered[u].seed = DictGet(domain_roots, all_discovered[u].domain, NoRoot)

\* C25 witness: a record that is not a seed is a link of a fetched page of
\* another domain, and its seed is not the first seed of the run.
C25_Witness ==
    \E u \in NonSeedRecords :
        /\ all_discovered[u].seed # domain_roots[1][2]
        /\ \E p \in FetchedOk :
              /\ get_normalized_domain(p) # all_discovered[u].domain
              /\ u \in ValidLinks(p)

\* The step collects the future of task t.
Collected(t) ==
    /\ t \in DOMAIN tasks'
    /\ tasks[t].st \in {"done", "raised"}
    /\ tasks'[t].st = "collected"

\* The step is the failure of task t.
Raised(t) ==
    /\ t \in DOMAIN tasks'
    /\ tasks[t].st # "raised"
    /\ tasks'[t].st = "raised"

Malformed(pat_str) ==
    /\ IsDirective(pat_str)
    /\ \/ Len(WrittenPattern(pat_str)) = 0
       \/ ~Compiles(WrittenPattern(pat_str))

NotMalformed(pat_str) == ~Malformed(pat_str)

\* C27: is_url_covered returns what it returns on the list of directives
\* without the malformed ones.
C27_MalformedDirectivesSkipped ==
    call.fn = "is_url_covered" =>
        call.result = is_url_covered(call.url, call.all_http,
                                     SelectSeq(call.patterns, NotMalformed))

\* Task t returned before the end of its batch: at the URL it had admitted
\* when the counter went above max_pages.
StoppedOverBudget(t) ==
    /\ \/ tasks[t].st = "done"
       \/ tasks[t].st = "collected" /\ ~tasks[t].exc
    /\ tasks[t].idx <= Len(tasks[t].urls)

\* C28: in every step the pages fetched so far number at most max_pages; the
\* step that counts an admitted URL sends the task to the fetch when the
\* counter is within max_pages, and otherwise leaves the URL visited, fetches
\* nothing and ends the batch; the URL a batch ended at is never fetched.
C28_FetchesNeverExceedMaxPages ==
    [][ /\ TotalFetches' <= max_pages
        /\ \A t \in DOMAIN tasks :
              (t \in DOMAIN tasks' /\ tasks[t].st = "count" /\ tasks'[t].st # "count") =>
                 IF pages_crawled' > max_pages
                 THEN /\ CurUrl(tasks[t]) \in visited'
                      /\ fetch_count' = fetch_count
                      /\ tasks'[t].st = "done"
                      /\ tasks'[t].idx = tasks[t].idx
                 ELSE tasks'[t].st = "fetch"
        /\ \A t \in DOMAIN tasks :
              StoppedOverBudget(t) =>
                 /\ CurUrl(tasks[t]) \in visited
                 /\ CurUrl(tasks[t]) \notin DOMAIN fetch_count'
      ]_vars

\* C28 witness: in a level of two tasks the page budget is used up, one task
\* has ended at a URL it admitted over the budget, and the other is still
\* running.
C28_Witness ==
    \E s, t \in DOMAIN tasks :
        /\ s # t
        /\ StoppedOverBudget(t)
        /\ tasks[t].st = "done"
        /\ Running(s)
        /\ TotalFetches = max_pages
        /\ pages_crawled > max_pages

\* The discovered URLs the reference list covers.
CoveredUrls ==
    { u \in DOMAIN all_discovered :
        is_url_covered(u, all_http_urls, regex_patterns).covered }

\* The discovered URLs that are not covered and are classified Out of Scope.
OutOfScopeUrls ==
    { u \in DOMAIN all_discovered \ CoveredUrls :
        classify_url(u).label = "Out of Scope" }

\* The discovered URLs that are not covered, not Out of Scope, and not in the
\* scope of the mode of the report.
FilteredUrls ==
    { u \in DOMAIN all_discovered \ (CoveredUrls \cup OutOfScopeUrls) :
        ~is_in_scope(u, crawl_summary.check_mode) }

\* C29: in the summary of a run each counter is the number of discovered
\* URLs of its kind, the four kinds being disjoint and every discovered URL
\* of one of them, so the counters add up to the number discovered.
C29_CountersPartitionDiscovered ==
    crawl_summary # NoSummary =>
        LET rest == DOMAIN all_discovered
                      \ (CoveredUrls \cup OutOfScopeUrls \cup FilteredUrls)
        IN /\ crawl_summary.total_discovered = Cardinality(DOMAIN all_discovered)
           /\ crawl_summary.covered_count = Cardinality(CoveredUrls)
           /\ crawl_summary.oos_count = Cardinality(OutOfScopeUrls)
           /\ crawl_summary.filtered_out_count = Cardinality(FilteredUrls)
           /\ crawl_summary.missing_count = Cardinality(rest)
           /\ crawl_summary.missing_count = Len(missing_rows)
           /\ crawl_summary.total_discovered =
                 crawl_summary.covered_count + crawl_summary.missing_count
                   + crawl_summary.oos_count + crawl_summary.filtered_out_count

\* C29 witness: the summary of a run in which each of the four counters is
\* above zero.
C29_Witness ==
    /\ crawl_summary # NoSummary
    /\ crawl_summary.covered_count > 0
    /\ crawl_summary.missing_count > 0
    /\ crawl_summary.oos_count > 0
    /\ crawl_summary.filtered_out_count > 0

\* The missing URLs of the run, those displayed, and those excluded.
OriginalUrls ==
    { missing_df_original.rows[i].missing_url : i \in DOMAIN missing_df_original.rows }

DisplayedUrls == { missing_df.rows[i].missing_url : i \in DOMAIN missing_df.rows }

ExcludedUrls ==
    IF excluded_df = NoFrame THEN {}
    ELSE { excluded_df.rows[i].row.missing_url : i \in DOMAIN excluded_df.rows }

\* Some keyword of the last Apply is found in the URL of the row.
MatchesApplied(row) ==
    \E i \in DOMAIN exclusions_applied.keywords :
        PatternIn(exclusions_applied.keywords[i], Lower(UrlText(row.missing_url)))

NoMatchApplied(row) == ~MatchesApplied(row)

\* C30: once a run is reported, the original frame holds the missing rows of
\* the run; the URLs displayed and the URLs excluded are disjoint and make up
\* the original ones; with no exclusion applied (at first, and after Reset)
\* the frame displayed is the original one and nothing is excluded; after an
\* Apply the rows displayed are the original rows that no keyword of that
\* Apply matches, in their order, and the rows excluded are the others,
\* whatever was displayed before.
C30_ExclusionsKeepOriginal ==
    crawl_summary # NoSummary =>
        /\ missing_df_original = Frame(missing_rows)
        /\ DisplayedUrls \cap ExcludedUrls = {}
        /\ DisplayedUrls \cup ExcludedUrls = OriginalUrls
        /\ IF exclusions_applied = NotApplied
           THEN /\ missing_df = missing_df_original
                /\ excluded_df = NoFrame
           ELSE /\ missing_df.rows = SelectSeq(missing_df_original.rows, NoMatchApplied)
                /\ [i \in DOMAIN excluded_df.rows |-> excluded_df.rows[i].row]
                      = SelectSeq(missing_df_original.rows, MatchesApplied)

\* C30 witness: exclusions are applied with the keywords
\* ' about|annual report| |deep'; a row is excluded by 'annual report', a row by
\* 'about', and a row is still displayed.
C30_Witness ==
    /\ exclusions_applied # NotApplied
    /\ Len(exclusions_applied.keywords) = 3
    /\ DisplayedUrls # {}
    /\ \E i, j \in DOMAIN excluded_df.rows :
          /\ excluded_df.rows[i].excluded_by_keyword = <<"annual", " ", "report">>
          /\ excluded_df.rows[j].excluded_by_keyword = <<"about">>

====
